---- MODULE Spec2Model ----
(***************************************************************************)
(* Model of the coursio planning server (APP/server.js, DB/schema.sql):    *)
(* the three tables courses / half_days / activities, the calendar mapper  *)
(* (computeHalfDaySession, buildExpectedHalfDays), the schedule            *)
(* materializer (ensureHalfDaysForCourse, reschedule) and the activity     *)
(* handlers (create, edit, delete, move).                                  *)
(*                                                                         *)
(* Calendar dates ('YYYY-MM-DD' strings, DATE columns) are day numbers;    *)
(* JavaScript Date objects are instants counted in hours since the epoch,  *)
(* so that the local-time / UTC conversions of the Date API are modelled   *)
(* by what they do for the time zone of the server process: its offset     *)
(* from UTC and, for a zone that has one, the day its clocks go forward.   *)
(***************************************************************************)
EXTENDS Integers, Sequences, FiniteSets, TLC

VARIABLES
  tz,              \* offset in hours of the server's local time from UTC
                   \*   (in standard time)
  summerTime,      \* the day in the night after which the clocks of the
                   \*   server's zone go one hour forward, NULL when the zone
                   \*   keeps one offset
  courses,         \* table courses: id -> [teacherId, startDate, startPeriod]
  halfDays,        \* table half_days: <<courseId, weekNumber, slotIndex>> ->
                   \*   the rows of that key, each [id, sessionDate, period]
  activities,      \* table activities: id -> [halfDayId, position]
  lastCourseId,    \* AUTO_INCREMENT counters of the three tables
  lastHalfDayId,
  lastActivityId,
  request,         \* the request answered last, with the teacher who sent it
  response,        \* the answer it was given
  pending          \* the calls that have done their reads and not yet their
                   \*   writes, by caller: a call of ensureHalfDaysForCourse
                   \*   [op, courseId, teacherId, existingHalfDays, missing], an
                   \*   edit or a move of an activity [op, teacherId, activityId,
                   \*   weekNumber, slotIndex, position, halfDayId,
                   \*   existingHalfDayId, maxPosition, targetActivityIds]

vars == <<tz, summerTime, courses, halfDays, activities,
          lastCourseId, lastHalfDayId, lastActivityId, request, response, pending>>

(***************************************************************************)
(* Bounds of the model                                                     *)
(***************************************************************************)
MaxActivities == 2
MaxPosition == 2

Teachers == {1, 2}
TimeZones == {-5, 0, 1}
SummerTimeDays == {12, 45}
StartDates == {10}
NewStartDates == {17}
RescheduleWeeks == {1, 3}
ActivityWeeks == {1}
ActivitySlots == {0, 1}
CourseIds == {1, 2}
CalendarFailPoints == {0, 2}
Callers == {1, 2}
MapperStartDates == {0, 10, 31}
MapperSources == {"column", "string"}
ActivityFailPoints == {0, 1}

(***************************************************************************)
(* Program constants                                                       *)
(***************************************************************************)
NULL == -1
HoursPerDay == 24
DaysPerWeek == 7
SlotsPerDay == 2
WeeksPerCourse == 5
SlotsPerWeek == 3
FullHalfDayCount == 15
DefaultTeacherId == 1
DefaultStartDate == 10

slotToPeriod == <<"matin", "apres_midi">>

\* slotToPeriod.indexOf(period): 0-based index, -1 when absent
IndexOfPeriod(period) ==
  IF \E i \in 1..Len(slotToPeriod) : slotToPeriod[i] = period
  THEN (CHOOSE i \in 1..Len(slotToPeriod) : slotToPeriod[i] = period) - 1
  ELSE -1

Min(a, b) == IF a <= b THEN a ELSE b

(***************************************************************************)
(* JavaScript Date API and the DATE column conversions of the driver       *)
(***************************************************************************)
\* new Date('YYYY-MM-DD'): a date-only string is midnight UTC of that day
DateFromString(day) == day * HoursPerDay

\* the offset of local time from UTC at the midnight that begins a local day
OffsetAtMidnight(day) ==
  IF summerTime # NULL /\ day > summerTime THEN tz + 1 ELSE tz

\* the instant of midnight local time of a day
LocalMidnight(day) == day * HoursPerDay - OffsetAtMidnight(day)

\* date.getDate() and the month and year with it: the local day of an instant
LocalDay(instant) ==
  CHOOSE d \in {IF t >= LocalMidnight(u + 1) THEN u + 1
                ELSE IF t >= LocalMidnight(u) THEN u ELSE u - 1 :
                  <<t, u>> \in {<<instant, instant \div HoursPerDay>>}} : TRUE

\* a DATE column read through the driver: midnight local time of that day
DateFromColumn(day) == LocalMidnight(day)

\* date.setHours(0, 0, 0, 0): midnight local time of the instant's local day;
\* in a zone that keeps one offset the local day is that of instant + tz
SetHoursMidnight(instant) ==
  IF summerTime = NULL
  THEN ((instant + tz) \div HoursPerDay) * HoursPerDay - tz
  ELSE CHOOSE m \in {LocalMidnight(d) : d \in {LocalDay(instant)}} : TRUE

\* date.setDate(date.getDate() + n): the local day n days on, at the same
\* local time of day; in a zone that keeps one offset, n times 24 hours on
AddDays(instant, n) ==
  IF summerTime = NULL
  THEN instant + n * HoursPerDay
  ELSE CHOOSE r \in {LocalMidnight(d + n) + (t - LocalMidnight(d)) :
                       <<t, d>> \in {<<instant, LocalDay(instant)>>}} : TRUE

\* date.toISOString().slice(0, 10): the UTC day of the instant
ToISODate(instant) == instant \div HoursPerDay

(***************************************************************************)
(* Calendar mapper                                                         *)
(***************************************************************************)
computeHalfDaySession(startDate, startSlotIndex, weekNumber, slotIndex) ==
  LET baseDate    == AddDays(SetHoursMidnight(startDate), (weekNumber - 1) * DaysPerWeek)
      slotOffset  == startSlotIndex + slotIndex
      dayOffset   == slotOffset \div SlotsPerDay
      period      == slotToPeriod[(slotOffset % SlotsPerDay) + 1]
      sessionDate == AddDays(baseDate, dayOffset)
  IN [sessionDate |-> ToISODate(sessionDate), period |-> period]

\* buildExpectedHalfDays with the loop over the weeks starting at week 1
\* whatever startingWeekNumber is
buildHalfDaysFromFirstWeek(startDate, startSlotIndex, startingWeekNumber) ==
  <<>> \o
  [i \in 1..(WeeksPerCourse * SlotsPerWeek) |->
     LET week    == 1 + ((i - 1) \div SlotsPerWeek)
         slot    == (i - 1) % SlotsPerWeek
         session == computeHalfDaySession(startDate, startSlotIndex, week, slot)
     IN [weekNumber |-> week, slotIndex |-> slot,
         sessionDate |-> session.sessionDate, period |-> session.period]]

\* const halfDays = []; one push per (week, slot) of the two loops
buildExpectedHalfDays(startDate, startSlotIndex, startingWeekNumber) ==
  <<>> \o
  [i \in 1..((WeeksPerCourse - startingWeekNumber + 1) * SlotsPerWeek) |->
     LET week    == startingWeekNumber + ((i - 1) \div SlotsPerWeek)
         slot    == (i - 1) % SlotsPerWeek
         session == computeHalfDaySession(startDate, startSlotIndex,
                                          week - startingWeekNumber + 1, slot)
     IN [weekNumber |-> week, slotIndex |-> slot,
         sessionDate |-> session.sessionDate, period |-> session.period]]

(***************************************************************************)
(* Persistence: queries on the three tables.  The table half_days is       *)
(* grouped by the columns of its unique key uq_half_days (course_id,       *)
(* week_number, slot_index): each key present holds the sequence of its    *)
(* rows in id order.  That a key holds one row only is the work of the     *)
(* constraint (DuplicateAt), not of the representation.                    *)
(***************************************************************************)
\* Rollback keeping what the statements before the failure wrote, as when
\* they run outside the transaction
RollbackNothing(atBegin, working) == working

\* a transaction that is rolled back leaves the table as it was at begin
Rollback(atBegin, working) == atBegin

\* CourseOwned of a SELECT without the condition on teacher_id
CourseExists(crs, courseId, teacherId) == courseId \in DOMAIN crs

\* SELECT ... FROM courses WHERE id = ? AND teacher_id = ? finds a row
CourseOwned(crs, courseId, teacherId) ==
  courseId \in DOMAIN crs /\ crs[courseId].teacherId = teacherId

\* the (week_number, slot_index) pairs in the order ORDER BY week_number, slot_index
SlotKeys ==
  [i \in 1..(WeeksPerCourse * SlotsPerWeek) |->
     <<((i - 1) \div SlotsPerWeek) + 1, (i - 1) % SlotsPerWeek>>]

\* the rows of one key as the SELECT of listCourseHalfDays returns them
SelectedRows(rows, weekNumber, slotIndex) ==
  [j \in 1..Len(rows) |->
     [id |-> rows[j].id, weekNumber |-> weekNumber, slotIndex |-> slotIndex,
      sessionDate |-> rows[j].sessionDate, period |-> rows[j].period]]

\* the rows of the course from the i-th key of SlotKeys on
RECURSIVE SelectHalfDays(_, _, _)
SelectHalfDays(hd, courseId, i) ==
  IF i > Len(SlotKeys) THEN <<>>
  ELSE (IF <<courseId, SlotKeys[i][1], SlotKeys[i][2]>> \in DOMAIN hd
        THEN SelectedRows(hd[<<courseId, SlotKeys[i][1], SlotKeys[i][2]>>],
                          SlotKeys[i][1], SlotKeys[i][2])
        ELSE <<>>) \o SelectHalfDays(hd, courseId, i + 1)

\* SELECT ... FROM half_days h JOIN courses c ... ORDER BY week_number, slot_index
listCourseHalfDays(crs, hd, courseId, teacherId) ==
  IF ~CourseOwned(crs, courseId, teacherId) THEN <<>>
  ELSE LET present == SelectSeq(SlotKeys, LAMBDA k : <<courseId, k[1], k[2]>> \in DOMAIN hd)
       IN IF \A i \in 1..Len(present) : Len(hd[<<courseId, present[i][1], present[i][2]>>]) = 1
          THEN \* one row for each key present
               [i \in 1..Len(present) |->
                  SelectedRows(hd[<<courseId, present[i][1], present[i][2]>>],
                               present[i][1], present[i][2])[1]]
          ELSE SelectHalfDays(hd, courseId, 1)

\* the row a lookup by (course_id, week_number, slot_index) finds
HalfDayAt(hd, key) == hd[key][1]

\* the key of the half_days row with this id
HalfDayKey(hd, halfDayId) ==
  CHOOSE k \in DOMAIN hd : \E j \in 1..Len(hd[k]) : hd[k][j].id = halfDayId

HalfDayIds(hd) == UNION {{hd[k][j].id : j \in 1..Len(hd[k])} : k \in DOMAIN hd}

\* CascadeDelete of tables without the ON DELETE CASCADE of their foreign keys
DeleteCourseRowOnly(hd, acts, courseId) == [halfDays |-> hd, activities |-> acts]

\* what DELETE FROM courses leaves of half_days and activities: the rows of
\* half_days that reference the course go with it (fk_half_days_course ON
\* DELETE CASCADE), and with them the activities that reference those rows
\* (fk_activities_half_day ON DELETE CASCADE)
CascadeDelete(hd, acts, courseId) ==
  LET kept == [k \in {k \in DOMAIN hd : k[1] # courseId} |-> hd[k]]
  IN [halfDays   |-> kept,
      activities |-> [a \in {a \in DOMAIN acts : acts[a].halfDayId \in HalfDayIds(kept)} |->
                        acts[a]]]

(***************************************************************************)
(* Schedule materializer                                                   *)
(***************************************************************************)
\* INSERT INTO half_days of the first n rows of the sequence rows, in order;
\* each new row takes the next AUTO_INCREMENT id
InsertHalfDays(hd, lastId, courseId, rows, n) ==
  LET keyOf(i)   == <<courseId, rows[i].weekNumber, rows[i].slotIndex>>
      inserted   == {keyOf(i) : i \in 1..n}
      newRows(k) == LET ix == SelectSeq([i \in 1..n |-> i], LAMBDA i : keyOf(i) = k)
                    IN [j \in 1..Len(ix) |->
                          [id |-> lastId + ix[j], sessionDate |-> rows[ix[j]].sessionDate,
                           period |-> rows[ix[j]].period]]
  IN [k \in inserted |-> (IF k \in DOMAIN hd THEN hd[k] ELSE <<>>) \o newRows(k)] @@ hd

\* hasAllHalfDays taking any existing half-day for a complete schedule
hasAnyHalfDays(existingHalfDays) == Len(existingHalfDays) >= 1

\* const hasAllHalfDays = existingHalfDays.length >= 15
hasAllHalfDays(existingHalfDays) == Len(existingHalfDays) >= FullHalfDayCount

\* ReturnedHalfDays returning the list read before the inserts
ReturnedStaleHalfDays(existingHalfDays, reread) == existingHalfDays

\* return listCourseHalfDays(courseId, teacherId): the list is read again after commit
ReturnedHalfDays(existingHalfDays, reread) == reread

\* DuplicateAt of a table half_days without the constraint uq_half_days
NoUniqueKey(hd, courseId, rows) == 0

\* the first of the rows whose INSERT violates uq_half_days, 0 when none does
DuplicateAt(hd, courseId, rows) ==
  LET dup == {i \in 1..Len(rows) : <<courseId, rows[i].weekNumber, rows[i].slotIndex>> \in DOMAIN hd}
  IN IF dup = {} THEN 0 ELSE CHOOSE i \in dup : \A j \in dup : i <= j

\* the query of a transaction that fails, 0 when none does: the failAt-th
\* when the transaction has that many (n) and no INSERT before it hits a
\* duplicate key, else the INSERT that hits one (dupAt)
FirstFailure(failAt, n, dupAt) ==
  IF failAt > 0 /\ failAt <= n /\ (dupAt = 0 \/ failAt <= dupAt) THEN failAt ELSE dupAt

\* UpsertHalfDays with the statement REPLACE INTO half_days: the row of a key
\* that exists is deleted and inserted again, under a new id
ReplaceHalfDays(hd, lastId, courseId, rows, n) ==
  [halfDays |->
     [k \in {<<courseId, rows[i].weekNumber, rows[i].slotIndex>> : i \in 1..n} |->
        LET i == CHOOSE i \in 1..n : <<courseId, rows[i].weekNumber, rows[i].slotIndex>> = k
        IN <<[id |-> lastId + i, sessionDate |-> rows[i].sessionDate,
              period |-> rows[i].period]>>] @@ hd,
   lastHalfDayId |-> lastId + n]

\* INSERT ... ON DUPLICATE KEY UPDATE session_date, period of the first n rows:
\* the row of a key that exists keeps its id, a new row takes the next id
UpsertHalfDays(hd, lastId, courseId, rows, n) ==
  LET keyOf(i)  == <<courseId, rows[i].weekNumber, rows[i].slotIndex>>
      absent    == {i \in 1..n : keyOf(i) \notin DOMAIN hd}
      newId(i)  == lastId + Cardinality({j \in absent : j <= i})
      written   == {keyOf(i) : i \in 1..n}
  IN [halfDays |->
        [k \in written |->
           LET i == CHOOSE i \in 1..n : keyOf(i) = k
           IN IF k \in DOMAIN hd
              THEN [j \in 1..Len(hd[k]) |->
                      [id |-> hd[k][j].id, sessionDate |-> rows[i].sessionDate,
                       period |-> rows[i].period]]
              ELSE <<[id |-> newId(i), sessionDate |-> rows[i].sessionDate,
                      period |-> rows[i].period]>>] @@ hd,
      lastHalfDayId |-> lastId + Cardinality(absent)]

\* insertMissingHalfDays writing every expected row with the statement of the
\* reschedule handler (INSERT ... ON DUPLICATE KEY UPDATE)
upsertExpectedHalfDays(crs, hd, lastId, courseId, teacherId, failAt, existingHalfDays, missing) ==
  LET expectedHalfDays == buildExpectedHalfDays(DateFromColumn(crs[courseId].startDate),
                                                IndexOfPeriod(crs[courseId].startPeriod), 1)
      ups == UpsertHalfDays(hd, lastId, courseId, expectedHalfDays, Len(expectedHalfDays))
  IN IF failAt > 0 /\ failAt <= Len(missing)
     THEN [halfDays |-> hd, lastHalfDayId |-> lastId, result |-> <<>>,
           threw |-> TRUE, inserted |-> 0]
     ELSE [halfDays |-> ups.halfDays, lastHalfDayId |-> ups.lastHalfDayId,
           result |-> listCourseHalfDays(crs, ups.halfDays, courseId, teacherId),
           threw |-> FALSE, inserted |-> Len(missing)]

\* the transaction of ensureHalfDaysForCourse, which inserts the missing rows,
\* and the list it returns
insertMissingHalfDays(crs, hd, lastId, courseId, teacherId, failAt, existingHalfDays, missing) ==
  LET failsAt == FirstFailure(failAt, Len(missing), DuplicateAt(hd, courseId, missing))
      done    == IF failsAt > 0 THEN failsAt - 1 ELSE Len(missing)
      working == InsertHalfDays(hd, lastId, courseId, missing, done)
  IN IF failsAt > 0
     THEN [halfDays |-> Rollback(hd, working), lastHalfDayId |-> lastId,
           result |-> <<>>, threw |-> TRUE, inserted |-> 0]
     ELSE [halfDays |-> working, lastHalfDayId |-> lastId + done,
           result |-> ReturnedHalfDays(existingHalfDays,
                        listCourseHalfDays(crs, working, courseId, teacherId)),
           threw |-> FALSE, inserted |-> done]

\* the expected half-days whose (week, slot) is not in existingKeys
missingHalfDays(expectedHalfDays, existingHalfDays) ==
  LET existingKeys == {<<existingHalfDays[i].weekNumber, existingHalfDays[i].slotIndex>> :
                         i \in 1..Len(existingHalfDays)}
  IN SelectSeq(expectedHalfDays, LAMBDA r : <<r.weekNumber, r.slotIndex>> \notin existingKeys)

\* ensureHalfDaysForCourse(courseId, teacherId); failAt = k > 0 makes the k-th
\* query of the transaction fail, when the transaction has that many queries
ensureHalfDaysForCourse(crs, hd, lastId, courseId, teacherId, failAt) ==
  LET unchanged(result) ==
        [halfDays |-> hd, lastHalfDayId |-> lastId, result |-> result,
         threw |-> FALSE, inserted |-> 0]
  IN IF ~CourseOwned(crs, courseId, teacherId) THEN unchanged(<<>>)
     ELSE
       LET course           == crs[courseId]
           startSlotIndex   == IndexOfPeriod(course.startPeriod)
           existingHalfDays == listCourseHalfDays(crs, hd, courseId, teacherId)
           expectedHalfDays == buildExpectedHalfDays(DateFromColumn(course.startDate),
                                                     startSlotIndex, 1)
           missing          == missingHalfDays(expectedHalfDays, existingHalfDays)
       IN IF startSlotIndex = -1 THEN unchanged(<<>>)
          ELSE IF hasAllHalfDays(existingHalfDays) THEN unchanged(existingHalfDays)
          ELSE insertMissingHalfDays(crs, hd, lastId, courseId, teacherId, failAt,
                                     existingHalfDays, missing)

\* the lookup of getHalfDayForCourse in the outcome ens of the materializer;
\* id = NULL when it finds none
matchingHalfDay(ens, crs, courseId, weekNumber, slotIndex, teacherId) ==
  LET matching == {i \in 1..Len(ens.result) : ens.result[i].weekNumber = weekNumber
                                              /\ ens.result[i].slotIndex = slotIndex}
      found    == /\ CourseOwned(crs, courseId, teacherId)
                  /\ <<courseId, weekNumber, slotIndex>> \in DOMAIN ens.halfDays
  IN [halfDays |-> ens.halfDays, lastHalfDayId |-> ens.lastHalfDayId,
      threw |-> ens.threw, inserted |-> ens.inserted,
      id |-> IF ens.threw \/ matching = {} \/ ~found THEN NULL
             ELSE HalfDayAt(ens.halfDays, <<courseId, weekNumber, slotIndex>>).id]

\* getHalfDayForCourse(courseId, weekNumber, slotIndex, teacherId): materializes
\* the course's half-days, then looks the requested one up
getHalfDayForCourse(crs, hd, lastId, courseId, weekNumber, slotIndex, teacherId, failAt) ==
  matchingHalfDay(ensureHalfDaysForCourse(crs, hd, lastId, courseId, teacherId, failAt),
                  crs, courseId, weekNumber, slotIndex, teacherId)

(***************************************************************************)
(* Activity sequencer                                                      *)
(***************************************************************************)
ActivitiesOf(acts, halfDayId) == {a \in DOMAIN acts : acts[a].halfDayId = halfDayId}

\* ORDER BY position IS NULL, position, id
OrderedBefore(acts, a, b) ==
  LET pa == acts[a].position
      pb == acts[b].position
  IN \/ pa # NULL /\ pb = NULL
     \/ pa # NULL /\ pb # NULL /\ pa < pb
     \/ pa = pb /\ a < b

getOrderedActivityIds(acts, halfDayId) ==
  LET ids     == ActivitiesOf(acts, halfDayId)
      rank(a) == Cardinality({b \in ids : OrderedBefore(acts, b, a)})
  IN [i \in 1..Cardinality(ids) |-> CHOOSE a \in ids : rank(a) = i - 1]

\* UPDATE activities SET position = index + 1 for every id of the list
WritePositions(acts, activityIds) ==
  [a \in DOMAIN acts |->
     IF \E i \in 1..Len(activityIds) : activityIds[i] = a
     THEN [acts[a] EXCEPT !.position = CHOOSE i \in 1..Len(activityIds) : activityIds[i] = a]
     ELSE acts[a]]

resequenceHalfDayPositions(acts, halfDayId) ==
  WritePositions(acts, getOrderedActivityIds(acts, halfDayId))

\* MaxPositionOf counting the rows of the half-day: SELECT COUNT(*)
CountActivitiesOf(acts, halfDayId) == Cardinality(ActivitiesOf(acts, halfDayId))

\* SELECT COALESCE(MAX(position), 0): MAX skips the NULL positions
MaxPositionOf(acts, halfDayId) ==
  LET ps == {acts[a].position : a \in ActivitiesOf(acts, halfDayId)} \ {NULL}
  IN IF ps = {} THEN 0 ELSE CHOOSE p \in ps : \A q \in ps : q <= p

\* editTransaction with the position clause in every UPDATE
editTransactionRepositioning(acts, activityId, targetHalfDayId) ==
  [acts EXCEPT ![activityId] =
     [halfDayId |-> targetHalfDayId,
      position |-> MaxPositionOf(acts, targetHalfDayId) + 1]]

\* the transaction of the edit handler on the table as it is at begin: the
\* UPDATE sets half_day_id, and position = MAX(position) + 1 of the target
\* half-day only when that is not the half-day of the activity
editTransaction(acts, activityId, targetHalfDayId) ==
  LET existingActivity == acts[activityId]
      nextPosition     == MaxPositionOf(acts, targetHalfDayId) + 1
  IN IF targetHalfDayId # existingActivity.halfDayId
     THEN [acts EXCEPT ![activityId] =
             [halfDayId |-> targetHalfDayId, position |-> nextPosition]]
     ELSE [acts EXCEPT ![activityId].halfDayId = targetHalfDayId]

\* the UPDATE of the edit handler on the table as it is when the statement
\* runs, with what the handler read before: the half-day of the activity
\* (existingActivity.halfDayId, 940-954) and the maximum position of the
\* target half-day (1008-1013); a row that is gone is not updated
editUpdate(acts, activityId, targetHalfDayId, existingHalfDayId, maxPosition) ==
  IF activityId \notin DOMAIN acts THEN acts
  ELSE IF targetHalfDayId # existingHalfDayId
  THEN [acts EXCEPT ![activityId] =
          [halfDayId |-> targetHalfDayId, position |-> maxPosition + 1]]
  ELSE [acts EXCEPT ![activityId].halfDayId = targetHalfDayId]

\* deleteActivityRow followed by a resequence of the half-day the row was in
deleteActivityAndResequence(acts, activityId) ==
  resequenceHalfDayPositions([a \in DOMAIN acts \ {activityId} |-> acts[a]],
                             acts[activityId].halfDayId)

\* DELETE FROM activities WHERE id = ?
deleteActivityRow(acts, activityId) ==
  [a \in DOMAIN acts \ {activityId} |-> acts[a]]

\* SELECT a.id, h.course_id ... WHERE a.id = ? AND c.teacher_id = ?
ActivityCourseId(hd, acts, activityId) == HalfDayKey(hd, acts[activityId].halfDayId)[1]

ActivityOwned(crs, hd, acts, activityId, teacherId) ==
  /\ activityId \in DOMAIN acts
  /\ acts[activityId].halfDayId \in HalfDayIds(hd)
  /\ CourseOwned(crs, ActivityCourseId(hd, acts, activityId), teacherId)

\* namesOtherCourse of a handler without the check
namesNoOtherCourse(courseId, activityCourseId) == FALSE

\* if (courseId && Number(courseId) !== existingActivity.courseId): the body
\* names a course, and not the course of the activity
namesOtherCourse(courseId, activityCourseId) ==
  courseId # NULL /\ courseId # activityCourseId

\* the identifiers bound in the scope of the move handler when its transaction runs
MoveHandlerScope ==
  {"req", "res", "activityId", "week", "slot", "courseId", "existingActivities",
   "activityCourseId", "weekNumber", "slotIndex", "hasPosition", "requestedPosition",
   "halfDay", "connection", "targetActivityIds"}

\* array.splice(index, 1) at the index of a, when a is in the array
SpliceOut(seq, a) == SelectSeq(seq, LAMBDA x : x # a)

\* array.splice(index, 0, a)
SpliceIn(seq, index, a) ==
  SubSeq(seq, 1, index) \o <<a>> \o SubSeq(seq, index + 1, Len(seq))

\* moveTransaction with the half-day update issued through the pool, outside
\* the transaction and ahead of the failing statement: the rollback keeps it
moveTransactionAutocommit(acts, activityId, halfDayId, requestedPosition) ==
  [activities |-> [acts EXCEPT ![activityId].halfDayId = halfDayId], threw |-> TRUE,
   error |-> "ReferenceError", position |-> NULL]

\* moveTransaction resequencing, through the pool and ahead of the failing
\* statement, the half-day of every activity and not the source alone
moveTransactionResequencingAll(acts, activityId, halfDayId, requestedPosition) ==
  [activities |-> [a \in DOMAIN acts |->
                     [acts[a] EXCEPT !.position =
                        1 + Cardinality({b \in ActivitiesOf(acts, acts[a].halfDayId) :
                                           OrderedBefore(acts, b, a)})]],
   threw |-> TRUE, error |-> "ReferenceError", position |-> NULL]

\* moveTransactionFrom with the half-day update issued through the pool,
\* outside the transaction and ahead of the failing statement
moveTransactionFromAutocommit(acts, activityId, halfDayId, requestedPosition, ordered) ==
  [activities |-> IF activityId \in DOMAIN acts
                  THEN [acts EXCEPT ![activityId].halfDayId = halfDayId] ELSE acts,
   threw |-> TRUE, error |-> "ReferenceError", position |-> NULL]

\* the transaction of the move handler after it has read the ordered ids of
\* the target half-day (ordered): it evaluates existingActivity.halfDayId; an
\* identifier that no scope binds throws a ReferenceError before any UPDATE is
\* issued, which the handler catches: rollback, 500.  The statements after it
\* are those the handler would run with existingActivity bound to the row of
\* the activity.
moveTransactionFrom(acts, activityId, halfDayId, requestedPosition, ordered) ==
  LET existingActivity  == acts[activityId]
      targetActivityIds == IF halfDayId = existingActivity.halfDayId
                           THEN SpliceOut(ordered, activityId) ELSE ordered
      sanitizedPosition == IF requestedPosition # NULL
                           THEN Min(requestedPosition, Len(targetActivityIds))
                           ELSE Len(targetActivityIds)
      placed            == SpliceIn(targetActivityIds, sanitizedPosition, activityId)
      moved             == [acts EXCEPT ![activityId].halfDayId = halfDayId]
      positioned        == WritePositions(moved, placed)
      working           == IF halfDayId # existingActivity.halfDayId
                           THEN resequenceHalfDayPositions(positioned,
                                                           existingActivity.halfDayId)
                           ELSE positioned
      atThrow           == acts
  IN IF "existingActivity" \notin MoveHandlerScope
     THEN [activities |-> Rollback(acts, atThrow), threw |-> TRUE,
           error |-> "ReferenceError", position |-> NULL]
     ELSE [activities |-> working, threw |-> FALSE, error |-> "",
           position |-> sanitizedPosition + 1]

\* the transaction of the move handler on the table as it is at begin
moveTransaction(acts, activityId, halfDayId, requestedPosition) ==
  moveTransactionFrom(acts, activityId, halfDayId, requestedPosition,
                      getOrderedActivityIds(acts, halfDayId))

(***************************************************************************)
(* Requests and responses.  error is the kind of the error the handler     *)
(* logs: "" (none), "not_found" (404), "validation" (400), "half_day"      *)
(* (target half-day not found, 500), "database" (a query failed, 500),     *)
(* "ReferenceError" (the handler's code threw, 500).                       *)
(***************************************************************************)
Request(op, teacherId, courseId, activityId, weekNumber, slotIndex, position, startDate) ==
  [op |-> op, teacherId |-> teacherId, courseId |-> courseId, activityId |-> activityId,
   weekNumber |-> weekNumber, slotIndex |-> slotIndex, position |-> position,
   startDate |-> startDate]

Response(status, id, halfDayId, position, list) ==
  [status |-> status, error |-> "", id |-> id, halfDayId |-> halfDayId,
   position |-> position, halfDays |-> list]

Failure(status, error) ==
  [status |-> status, error |-> error, id |-> NULL, halfDayId |-> NULL,
   position |-> NULL, halfDays |-> <<>>]

(***************************************************************************)
(* Initial state: the store after bootstrap() on an empty database         *)
(***************************************************************************)
InitStore ==
  /\ courses = (1 :> [teacherId |-> DefaultTeacherId, startDate |-> DefaultStartDate,
                      startPeriod |-> "matin"])
  /\ halfDays = ensureHalfDaysForCourse(courses, <<>>, 0, 1, DefaultTeacherId, 0).halfDays
  /\ activities = <<>>
  /\ lastCourseId = 1
  /\ lastHalfDayId = FullHalfDayCount
  /\ lastActivityId = 0
  /\ request = Request("bootstrap", NULL, 1, NULL, NULL, NULL, NULL, NULL)
  /\ response = Response(0, 1, NULL, NULL, <<>>)
  /\ pending = <<>>

\* bootstrap of a server whose zone keeps one offset
Init ==
  /\ tz \in TimeZones
  /\ summerTime = NULL
  /\ InitStore

\* bootstrap of a server whose zone is on UTC in winter and one hour ahead
\* in summer
InitSummerTime ==
  /\ tz = 0
  /\ summerTime \in SummerTimeDays
  /\ InitStore

(***************************************************************************)
(* Course handlers                                                         *)
(***************************************************************************)
\* app.post('/api/courses')
CreateCourse(teacherId, startDate, startSlot, failAt) ==
  /\ lastCourseId + 1 \in CourseIds
  /\ LET id  == lastCourseId + 1
         crs == courses @@ (id :> [teacherId |-> teacherId, startDate |-> startDate,
                                   startPeriod |-> slotToPeriod[startSlot + 1]])
     IN \E ens \in {ensureHalfDaysForCourse(crs, halfDays, lastHalfDayId, id,
                                            teacherId, failAt)} :
        /\ courses' = crs
        /\ lastCourseId' = id
        /\ halfDays' = ens.halfDays
        /\ lastHalfDayId' = ens.lastHalfDayId
        /\ request' = Request("createCourse", teacherId, id, NULL, NULL, startSlot, NULL, startDate)
        /\ response' = IF ens.threw THEN Failure(500, "database")
                       ELSE Response(201, id, NULL, NULL, <<>>)
  /\ UNCHANGED <<tz, summerTime, activities, lastActivityId, pending>>

\* app.patch('/api/courses/:courseId'): the UPDATE sets module_number,
\* module_name, class, room and particularites, none of which the model keeps
UpdateCourse(teacherId, courseId) ==
  /\ request' = Request("updateCourse", teacherId, courseId, NULL, NULL, NULL, NULL, NULL)
  /\ response' = IF ~CourseOwned(courses, courseId, teacherId)
                 THEN Failure(404, "not_found")
                 ELSE Response(200, courseId, NULL, NULL, <<>>)
  /\ UNCHANGED <<tz, summerTime, courses, halfDays, activities, lastCourseId, lastHalfDayId,
                 lastActivityId, pending>>

\* app.get('/api/courses/:courseId/half-days')
GetHalfDays(teacherId, courseId, failAt) ==
  /\ request' = Request("halfDays", teacherId, courseId, NULL, NULL, NULL, NULL, NULL)
  /\ IF ~CourseOwned(courses, courseId, teacherId)
     THEN /\ response' = Failure(404, "not_found")
          /\ UNCHANGED <<halfDays, lastHalfDayId>>
     ELSE \E ens \in {ensureHalfDaysForCourse(courses, halfDays, lastHalfDayId,
                                                courseId, teacherId, failAt)} :
             /\ halfDays' = ens.halfDays
             /\ lastHalfDayId' = ens.lastHalfDayId
             /\ response' = IF ens.threw THEN Failure(500, "database")
                            ELSE Response(200, courseId, NULL, NULL, ens.result)
  /\ UNCHANGED <<tz, summerTime, courses, activities, lastCourseId, lastActivityId, pending>>

\* isFirstWeek holding of every week
isAnyWeek(weekNumber) == weekNumber >= 1

\* if (weekNumber === 1): the reschedule moves the start of the course
isFirstWeek(weekNumber) == weekNumber = 1

\* app.post('/api/courses/:courseId/weeks/:weekNumber/reschedule')
Reschedule(teacherId, courseId, weekNumber, startDate, failAt) ==
  /\ request' = Request("reschedule", teacherId, courseId, NULL, weekNumber, NULL, NULL, startDate)
  /\ IF ~CourseOwned(courses, courseId, teacherId)
     THEN /\ response' = Failure(404, "not_found")
          /\ UNCHANGED <<courses, halfDays, lastHalfDayId>>
     ELSE LET startSlotIndex   == IndexOfPeriod(courses[courseId].startPeriod)
              halfDaysToUpdate == buildExpectedHalfDays(DateFromString(startDate),
                                                        startSlotIndex, weekNumber)
              first     == IF isFirstWeek(weekNumber) THEN 1 ELSE 0
              fails     == failAt > 0 /\ failAt <= first + Len(halfDaysToUpdate)
              doneFirst == first = 1 /\ (~fails \/ failAt > 1)
              doneRows  == IF fails THEN (IF failAt - 1 - first > 0 THEN failAt - 1 - first ELSE 0)
                           ELSE Len(halfDaysToUpdate)
              crs       == IF doneFirst
                           THEN [courses EXCEPT ![courseId].startDate = startDate]
                           ELSE courses
              ups       == UpsertHalfDays(halfDays, lastHalfDayId, courseId,
                                          halfDaysToUpdate, doneRows)
          IN IF fails
             THEN /\ courses' = Rollback(courses, crs)
                  /\ halfDays' = Rollback(halfDays, ups.halfDays)
                  /\ lastHalfDayId' = lastHalfDayId
                  /\ response' = Failure(500, "database")
             ELSE /\ courses' = crs
                  /\ halfDays' = ups.halfDays
                  /\ lastHalfDayId' = ups.lastHalfDayId
                  /\ response' = Response(200, courseId, NULL, NULL,
                                          listCourseHalfDays(crs, ups.halfDays, courseId, teacherId))
  /\ UNCHANGED <<tz, summerTime, activities, lastCourseId, lastActivityId, pending>>

\* app.delete('/api/courses/:courseId'); moduleNumber is what the body gives to
\* confirm the deletion: "" (none), "same" (the module number of the course)
\* or "other"
DeleteCourse(teacherId, courseId, moduleNumber) ==
  /\ request' = Request("deleteCourse", teacherId, courseId, NULL, NULL, NULL, NULL, NULL)
  /\ IF moduleNumber = ""
     THEN /\ response' = Failure(400, "validation")
          /\ UNCHANGED <<courses, halfDays, activities>>
     ELSE IF ~CourseOwned(courses, courseId, teacherId)
     THEN /\ response' = Failure(404, "not_found")
          /\ UNCHANGED <<courses, halfDays, activities>>
     ELSE IF moduleNumber # "same"
     THEN /\ response' = Failure(400, "validation")
          /\ UNCHANGED <<courses, halfDays, activities>>
     ELSE \E left \in {CascadeDelete(halfDays, activities, courseId)} :
            /\ courses' = [c \in DOMAIN courses \ {courseId} |-> courses[c]]
            /\ halfDays' = left.halfDays
            /\ activities' = left.activities
            /\ response' = Response(200, courseId, NULL, NULL, <<>>)
  /\ UNCHANGED <<tz, summerTime, lastCourseId, lastHalfDayId, lastActivityId, pending>>

(***************************************************************************)
(* Interleaved calls of the materializer.  ensureHalfDaysForCourse reads   *)
(* the course and its half-days through the pool (298-316) and then runs   *)
(* its transaction (318-341); the requests of other callers are served     *)
(* between the two.  The statements of one transaction are taken together: *)
(* an INSERT that meets the uncommitted row of another transaction waits   *)
(* for that transaction to end.                                            *)
(***************************************************************************)
\* what a call keeps from its reads when it reaches its transaction
ReadByEnsure(op, crs, hd, courseId, teacherId, existingHalfDays) ==
  [op |-> op, courseId |-> courseId, teacherId |-> teacherId,
   existingHalfDays |-> existingHalfDays,
   missing |-> missingHalfDays(
                 buildExpectedHalfDays(DateFromColumn(crs[courseId].startDate),
                                       IndexOfPeriod(crs[courseId].startPeriod), 1),
                 existingHalfDays)]

\* GET half-days by caller p, up to the reads of ensureHalfDaysForCourse, for
\* a course that has not all its half-days
BeginEnsure(p, teacherId, courseId) ==
  /\ p \notin DOMAIN pending
  /\ CourseOwned(courses, courseId, teacherId)
  /\ \E existingHalfDays \in {listCourseHalfDays(courses, halfDays, courseId, teacherId)} :
       /\ ~hasAllHalfDays(existingHalfDays)
       /\ pending' = pending @@
                        (p :> ReadByEnsure("halfDays", courses, halfDays, courseId, teacherId,
                                           existingHalfDays))
  /\ UNCHANGED <<tz, summerTime, courses, halfDays, activities, lastCourseId, lastHalfDayId,
                 lastActivityId, request, response>>

\* POST courses by caller p: the INSERT of the course and the reads of
\* ensureHalfDaysForCourse
BeginCreateCourse(p, teacherId, startDate, startSlot) ==
  /\ p \notin DOMAIN pending
  /\ lastCourseId + 1 \in CourseIds
  /\ LET id  == lastCourseId + 1
         crs == courses @@ (id :> [teacherId |-> teacherId, startDate |-> startDate,
                                   startPeriod |-> slotToPeriod[startSlot + 1]])
     IN /\ courses' = crs
        /\ lastCourseId' = id
        /\ pending' = pending @@
                         (p :> ReadByEnsure("createCourse", crs, halfDays, id, teacherId,
                                            listCourseHalfDays(crs, halfDays, id, teacherId)))
  /\ UNCHANGED <<tz, summerTime, halfDays, activities, lastHalfDayId, lastActivityId, request, response>>

\* the transaction of the call of caller p, its final read and the answer
FinishEnsure(p) ==
  /\ p \in DOMAIN pending
  /\ pending[p].op \in {"halfDays", "createCourse"}
  /\ \E call \in {pending[p]} :
     \E tx \in {insertMissingHalfDays(courses, halfDays, lastHalfDayId, call.courseId,
                                      call.teacherId, 0, call.existingHalfDays,
                                      call.missing)} :
       /\ halfDays' = tx.halfDays
       /\ lastHalfDayId' = tx.lastHalfDayId
       /\ request' = Request(call.op, call.teacherId, call.courseId, NULL, NULL, NULL, NULL, NULL)
       /\ response' = IF tx.threw THEN Failure(500, "database")
                      ELSE IF call.op = "createCourse"
                      THEN Response(201, call.courseId, NULL, NULL, <<>>)
                      ELSE Response(200, call.courseId, NULL, NULL, tx.result)
  /\ pending' = [q \in DOMAIN pending \ {p} |-> pending[q]]
  /\ UNCHANGED <<tz, summerTime, courses, activities, lastCourseId, lastActivityId>>

(***************************************************************************)
(* The calendar mapper on its own: one call of computeHalfDaySession with  *)
(* the startDate its callers pass, the Date read from courses.start_date   *)
(* (ensureHalfDaysForCourse, 315) or the date string of the request        *)
(* (reschedule, 831).  request keeps the arguments, response the result.   *)
(***************************************************************************)
MapSlot(source, startDate, startSlotIndex, weekNumber, slotIndex) ==
  /\ request' = [op |-> "computeHalfDaySession", source |-> source,
                 startDate |-> startDate, startSlotIndex |-> startSlotIndex,
                 weekNumber |-> weekNumber, slotIndex |-> slotIndex]
  /\ response' = computeHalfDaySession(IF source = "column"
                                         THEN DateFromColumn(startDate)
                                         ELSE DateFromString(startDate),
                                       startSlotIndex, weekNumber, slotIndex)
  /\ UNCHANGED <<tz, summerTime, courses, halfDays, activities, lastCourseId, lastHalfDayId,
                 lastActivityId, pending>>

(***************************************************************************)
(* Activity handlers                                                       *)
(***************************************************************************)
\* app.post('/api/activities'): the INSERT names no position, the column
\* takes its default, NULL
CreateActivity(teacherId, courseId, weekNumber, slotIndex, failAt) ==
  /\ lastActivityId < MaxActivities
  /\ request' = Request("createActivity", teacherId, courseId, NULL, weekNumber, slotIndex, NULL, NULL)
  /\ IF ~CourseOwned(courses, courseId, teacherId)
     THEN /\ response' = Failure(404, "not_found")
          /\ UNCHANGED <<halfDays, lastHalfDayId, activities, lastActivityId>>
     ELSE \E halfDay \in {getHalfDayForCourse(courses, halfDays, lastHalfDayId, courseId,
                                                weekNumber, slotIndex, teacherId, failAt)} :
          LET fails == failAt - halfDay.inserted = 1
              id    == lastActivityId + 1
          IN /\ halfDays' = halfDay.halfDays
             /\ lastHalfDayId' = halfDay.lastHalfDayId
             /\ IF halfDay.threw \/ fails
                THEN /\ response' = Failure(500, "database")
                     /\ UNCHANGED <<activities, lastActivityId>>
                ELSE IF halfDay.id = NULL
                THEN /\ response' = Failure(500, "half_day")
                     /\ UNCHANGED <<activities, lastActivityId>>
                ELSE /\ activities' = activities @@
                                      (id :> [halfDayId |-> halfDay.id, position |-> NULL])
                     /\ lastActivityId' = id
                     /\ response' = Response(201, id, halfDay.id, NULL, <<>>)
  /\ UNCHANGED <<tz, summerTime, courses, lastCourseId, pending>>

\* app.patch('/api/activities/:activityId'); courseId = NULL when the body names none
EditActivity(teacherId, activityId, courseId, weekNumber, slotIndex, failAt) ==
  /\ request' = Request("editActivity", teacherId, courseId, activityId, weekNumber, slotIndex, NULL, NULL)
  /\ IF ~ActivityOwned(courses, halfDays, activities, activityId, teacherId)
     THEN /\ response' = Failure(404, "not_found")
          /\ UNCHANGED <<halfDays, lastHalfDayId, activities>>
     ELSE IF namesOtherCourse(courseId, ActivityCourseId(halfDays, activities, activityId))
     THEN /\ response' = Failure(400, "validation")
          /\ UNCHANGED <<halfDays, lastHalfDayId, activities>>
     ELSE \E targetHalfDay \in {getHalfDayForCourse(courses, halfDays, lastHalfDayId,
                                    ActivityCourseId(halfDays, activities, activityId),
                                    weekNumber, slotIndex, teacherId, failAt)} :
          LET existingActivity == activities[activityId]
              fails         == failAt - targetHalfDay.inserted = 1
              nextPosition  == MaxPositionOf(activities, targetHalfDay.id) + 1
              working       == editTransaction(activities, activityId, targetHalfDay.id)
          IN /\ targetHalfDay.id # NULL /\ targetHalfDay.id # existingActivity.halfDayId
                  => nextPosition <= MaxPosition
             /\ halfDays' = targetHalfDay.halfDays
             /\ lastHalfDayId' = targetHalfDay.lastHalfDayId
             /\ IF targetHalfDay.threw
                THEN /\ response' = Failure(500, "database")
                     /\ UNCHANGED activities
                ELSE IF targetHalfDay.id = NULL
                THEN /\ response' = Failure(500, "half_day")
                     /\ UNCHANGED activities
                ELSE IF fails
                THEN /\ activities' = Rollback(activities, working)
                     /\ response' = Failure(500, "database")
                ELSE /\ activities' = working
                     /\ response' = Response(200, activityId, targetHalfDay.id, NULL, <<>>)
  /\ UNCHANGED <<tz, summerTime, courses, lastCourseId, lastActivityId, pending>>

\* app.delete('/api/activities/:activityId')
DeleteActivity(teacherId, activityId) ==
  /\ request' = Request("deleteActivity", teacherId, NULL, activityId, NULL, NULL, NULL, NULL)
  /\ IF ~ActivityOwned(courses, halfDays, activities, activityId, teacherId)
     THEN /\ response' = Failure(404, "not_found")
          /\ UNCHANGED activities
     ELSE /\ activities' = deleteActivityRow(activities, activityId)
          /\ response' = Response(200, activityId, NULL, NULL, <<>>)
  /\ UNCHANGED <<tz, summerTime, courses, halfDays, lastCourseId, lastHalfDayId, lastActivityId, pending>>

\* app.patch('/api/activities/:activityId/move'); courseId and position are
\* NULL when the body names none
MoveActivity(teacherId, activityId, courseId, weekNumber, slotIndex, position, failAt) ==
  /\ request' = Request("moveActivity", teacherId, courseId, activityId, weekNumber, slotIndex,
                        position, NULL)
  /\ IF ~ActivityOwned(courses, halfDays, activities, activityId, teacherId)
     THEN /\ response' = Failure(404, "not_found")
          /\ UNCHANGED <<halfDays, lastHalfDayId, activities>>
     ELSE IF namesOtherCourse(courseId, ActivityCourseId(halfDays, activities, activityId))
     THEN /\ response' = Failure(400, "validation")
          /\ UNCHANGED <<halfDays, lastHalfDayId, activities>>
     ELSE \E halfDay \in {getHalfDayForCourse(courses, halfDays, lastHalfDayId,
                              ActivityCourseId(halfDays, activities, activityId),
                              weekNumber, slotIndex, teacherId, failAt)} :
          LET fails == failAt - halfDay.inserted = 1
              tx    == moveTransaction(activities, activityId, halfDay.id, position)
          IN /\ halfDays' = halfDay.halfDays
             /\ lastHalfDayId' = halfDay.lastHalfDayId
             /\ IF halfDay.threw
                THEN /\ response' = Failure(500, "database")
                     /\ UNCHANGED activities
                ELSE IF halfDay.id = NULL
                THEN /\ response' = Failure(500, "half_day")
                     /\ UNCHANGED activities
                ELSE IF fails
                THEN /\ activities' = Rollback(activities, activities)
                     /\ response' = Failure(500, "database")
                ELSE /\ activities' = tx.activities
                     /\ response' = IF tx.threw THEN Failure(500, tx.error)
                                    ELSE Response(200, activityId, halfDay.id, tx.position, <<>>)
  /\ UNCHANGED <<tz, summerTime, courses, lastCourseId, lastActivityId, pending>>

(***************************************************************************)
(* Interleaved edits and moves.  Each handler does its lookups through the *)
(* pool, opens its transaction and reads in it (the maximum position of    *)
(* the target half-day at 1008-1011, the ordered ids of the target         *)
(* half-day at 1129) with a plain SELECT, which takes no lock; the         *)
(* requests of other callers are served before its UPDATEs run.  The       *)
(* UPDATEs and the commit of one transaction are taken together: until the *)
(* commit no other connection sees them.                                   *)
(***************************************************************************)
\* what an edit or a move keeps from its reads when it reaches its UPDATEs
ReadByHandler(op, teacherId, activityId, weekNumber, slotIndex, position, halfDayId, existingHalfDayId, maxPosition, targetActivityIds) ==
  [op |-> op, teacherId |-> teacherId, activityId |-> activityId,
   weekNumber |-> weekNumber, slotIndex |-> slotIndex, position |-> position,
   halfDayId |-> halfDayId, existingHalfDayId |-> existingHalfDayId,
   maxPosition |-> maxPosition, targetActivityIds |-> targetActivityIds]

\* PATCH activities/:activityId by caller p, for an activity of the teacher and
\* a target half-day that is found, up to the SELECT of the maximum position
BeginEdit(p, teacherId, activityId, weekNumber, slotIndex) ==
  /\ p \notin DOMAIN pending
  /\ ActivityOwned(courses, halfDays, activities, activityId, teacherId)
  /\ \E targetHalfDay \in {getHalfDayForCourse(courses, halfDays, lastHalfDayId,
                                 ActivityCourseId(halfDays, activities, activityId),
                                 weekNumber, slotIndex, teacherId, 0)} :
     \E existingActivity \in {activities[activityId]} :
       /\ ~targetHalfDay.threw
       /\ targetHalfDay.id # NULL
       /\ targetHalfDay.id # existingActivity.halfDayId =>
            MaxPositionOf(activities, targetHalfDay.id) + 1 <= MaxPosition
       /\ halfDays' = targetHalfDay.halfDays
       /\ lastHalfDayId' = targetHalfDay.lastHalfDayId
       /\ pending' = pending @@
            (p :> ReadByHandler("editActivity", teacherId, activityId, weekNumber, slotIndex,
                                NULL, targetHalfDay.id, existingActivity.halfDayId,
                                IF targetHalfDay.id # existingActivity.halfDayId
                                THEN MaxPositionOf(activities, targetHalfDay.id) ELSE NULL,
                                <<>>))
  /\ UNCHANGED <<tz, summerTime, courses, activities, lastCourseId, lastActivityId, request, response>>

\* the UPDATE of the edit of caller p, its commit and the answer
FinishEdit(p) ==
  /\ p \in DOMAIN pending
  /\ pending[p].op = "editActivity"
  /\ \E call \in {pending[p]} :
       /\ activities' = editUpdate(activities, call.activityId, call.halfDayId,
                                   call.existingHalfDayId, call.maxPosition)
       /\ request' = Request("editActivity", call.teacherId, NULL, call.activityId,
                             call.weekNumber, call.slotIndex, NULL, NULL)
       /\ response' = Response(200, call.activityId, call.halfDayId, NULL, <<>>)
  /\ pending' = [q \in DOMAIN pending \ {p} |-> pending[q]]
  /\ UNCHANGED <<tz, summerTime, courses, halfDays, lastCourseId, lastHalfDayId, lastActivityId>>

\* PATCH activities/:activityId/move by caller p, for an activity of the teacher
\* and a target half-day that is found, up to the SELECT of the ordered ids
BeginMove(p, teacherId, activityId, weekNumber, slotIndex, position) ==
  /\ p \notin DOMAIN pending
  /\ ActivityOwned(courses, halfDays, activities, activityId, teacherId)
  /\ \E halfDay \in {getHalfDayForCourse(courses, halfDays, lastHalfDayId,
                           ActivityCourseId(halfDays, activities, activityId),
                           weekNumber, slotIndex, teacherId, 0)} :
       /\ ~halfDay.threw
       /\ halfDay.id # NULL
       /\ halfDays' = halfDay.halfDays
       /\ lastHalfDayId' = halfDay.lastHalfDayId
       /\ pending' = pending @@
            (p :> ReadByHandler("moveActivity", teacherId, activityId, weekNumber, slotIndex,
                                position, halfDay.id, NULL, NULL,
                                getOrderedActivityIds(activities, halfDay.id)))
  /\ UNCHANGED <<tz, summerTime, courses, activities, lastCourseId, lastActivityId, request, response>>

\* the rest of the transaction of the move of caller p and the answer
FinishMove(p) ==
  /\ p \in DOMAIN pending
  /\ pending[p].op = "moveActivity"
  /\ \E call \in {pending[p]} :
     \E tx \in {moveTransactionFrom(activities, call.activityId, call.halfDayId,
                                    call.position, call.targetActivityIds)} :
       /\ activities' = tx.activities
       /\ request' = Request("moveActivity", call.teacherId, NULL, call.activityId,
                             call.weekNumber, call.slotIndex, call.position, NULL)
       /\ response' = IF tx.threw THEN Failure(500, tx.error)
                      ELSE Response(200, call.activityId, call.halfDayId, tx.position, <<>>)
  /\ pending' = [q \in DOMAIN pending \ {p} |-> pending[q]]
  /\ UNCHANGED <<tz, summerTime, courses, halfDays, lastCourseId, lastHalfDayId, lastActivityId>>

(***************************************************************************)
(* Specifications: requests are handled one at a time                      *)
(***************************************************************************)
ActivityIds == 1..MaxActivities
RequestedCourseIds == {NULL, 2}
RequestedPositions == {NULL, 0, MaxActivities + 1}

NextCalendar ==
  \/ \E t \in Teachers, d \in StartDates, s \in 0..(SlotsPerDay - 1), f \in CalendarFailPoints :
       CreateCourse(t, d, s, f)
  \/ \E t \in Teachers, c \in CourseIds : UpdateCourse(t, c)
  \/ \E t \in Teachers, c \in CourseIds, f \in CalendarFailPoints : GetHalfDays(t, c, f)
  \/ \E t \in Teachers, c \in CourseIds, w \in RescheduleWeeks, d \in NewStartDates,
        f \in CalendarFailPoints : Reschedule(t, c, w, d, f)

NextActivities ==
  \/ \E t \in Teachers, c \in CourseIds, w \in ActivityWeeks, s \in ActivitySlots,
        f \in ActivityFailPoints : CreateActivity(t, c, w, s, f)
  \/ \E t \in Teachers, a \in ActivityIds, c \in RequestedCourseIds, w \in ActivityWeeks,
        s \in ActivitySlots, f \in ActivityFailPoints : EditActivity(t, a, c, w, s, f)
  \/ \E t \in Teachers, a \in ActivityIds : DeleteActivity(t, a)
  \/ \E t \in Teachers, a \in ActivityIds, c \in RequestedCourseIds, w \in ActivityWeeks,
        s \in ActivitySlots, p \in RequestedPositions, f \in ActivityFailPoints :
       MoveActivity(t, a, c, w, s, p, f)

\* the calendar requests alone, on the store left by bootstrap
SpecCalendar == Init /\ [][NextCalendar]_vars

\* the activity requests alone, on the store left by bootstrap of a server
\* whose local time is UTC
InitActivities == Init /\ tz = 0

SpecActivities == InitActivities /\ [][NextActivities]_vars

\* the requests that keep a course on its start: course creation, course
\* update, GET half-days, activity creation and reschedules from week 1
NextFromStart ==
  \/ \E t \in Teachers, d \in StartDates, s \in 0..(SlotsPerDay - 1), f \in CalendarFailPoints :
       CreateCourse(t, d, s, f)
  \/ \E t \in Teachers, c \in CourseIds : UpdateCourse(t, c)
  \/ \E t \in Teachers, c \in CourseIds, f \in CalendarFailPoints : GetHalfDays(t, c, f)
  \/ \E t \in Teachers, c \in CourseIds, d \in NewStartDates, f \in CalendarFailPoints :
       Reschedule(t, c, 1, d, f)
  \/ \E t \in Teachers, c \in CourseIds, s \in ActivitySlots :
       CreateActivity(t, c, 1, s, 0)

SpecFromStart == Init /\ [][NextFromStart]_vars

\* calls of the calendar mapper for every start slot, week and slot
NextMapper ==
  \E source \in MapperSources, d \in MapperStartDates, s0 \in 0..(SlotsPerDay - 1),
     w \in 1..WeeksPerCourse, s \in 0..(SlotsPerWeek - 1) : MapSlot(source, d, s0, w, s)

SpecMapper == Init /\ [][NextMapper]_vars

\* the calls of the materializer of several callers interleaved with each
\* other and with reschedules, no query failing but on a duplicate key
NextConcurrent ==
  \/ \E p \in Callers, t \in Teachers, c \in CourseIds : BeginEnsure(p, t, c)
  \/ \E p \in Callers, t \in Teachers, d \in StartDates, s \in 0..(SlotsPerDay - 1) :
       BeginCreateCourse(p, t, d, s)
  \/ \E p \in Callers : FinishEnsure(p)
  \/ \E t \in Teachers, c \in CourseIds, w \in RescheduleWeeks, d \in NewStartDates :
       Reschedule(t, c, w, d, 0)

InitConcurrent == Init /\ tz = 0

SpecConcurrent == InitConcurrent /\ [][NextConcurrent]_vars

\* the requests of the default teacher on the courses and on the activities of
\* course 1, one at a time, on the store left by bootstrap of a server whose
\* local time is UTC
NextTeacher ==
  \/ CreateCourse(DefaultTeacherId, DefaultStartDate, 0, 0)
  \/ \E c \in CourseIds : UpdateCourse(DefaultTeacherId, c)
  \/ \E c \in CourseIds : GetHalfDays(DefaultTeacherId, c, 0)
  \/ \E c \in CourseIds, w \in RescheduleWeeks, d \in NewStartDates, f \in CalendarFailPoints :
       Reschedule(DefaultTeacherId, c, w, d, f)
  \/ CreateActivity(DefaultTeacherId, 1, 1, 0, 0)
  \/ \E a \in ActivityIds : EditActivity(DefaultTeacherId, a, NULL, 1, 1, 0)
  \/ \E a \in ActivityIds : DeleteActivity(DefaultTeacherId, a)
  \/ \E a \in ActivityIds : MoveActivity(DefaultTeacherId, a, NULL, 1, 1, NULL, 0)

SpecTeacher == InitActivities /\ [][NextTeacher]_vars

\* what the body of DELETE courses gives to confirm the deletion
ModuleNumbers == {"", "same", "other"}

\* the requests of both teachers on the courses and on the activities they
\* own or do not own, one at a time: teacher 2 creates a course with and
\* without its half-days, which either teacher asks to reschedule; activities
\* are created in slot 0 and reassigned to slot 1
NextOwners ==
  \/ \E f \in CalendarFailPoints : CreateCourse(2, DefaultStartDate, 0, f)
  \/ \E t \in Teachers, d \in NewStartDates : Reschedule(t, 2, 3, d, 0)
  \/ \E t \in Teachers, c \in CourseIds : CreateActivity(t, c, 1, 0, 0)
  \/ \E t \in Teachers, a \in ActivityIds : EditActivity(t, a, NULL, 1, 1, 0)
  \/ \E t \in Teachers, a \in ActivityIds : DeleteActivity(t, a)
  \/ \E t \in Teachers, a \in ActivityIds : MoveActivity(t, a, NULL, 1, 1, NULL, 0)

SpecOwners == InitActivities /\ [][NextOwners]_vars

\* the requests of the default teacher on courses that are created,
\* materialized and deleted, on course 1 rescheduled from week 3, and on the
\* activities of the courses, one at a time
NextIntegrity ==
  \/ \E f \in CalendarFailPoints : CreateCourse(DefaultTeacherId, DefaultStartDate, 0, f)
  \/ \E c \in CourseIds, m \in ModuleNumbers : DeleteCourse(DefaultTeacherId, c, m)
  \/ \E c \in CourseIds : GetHalfDays(DefaultTeacherId, c, 0)
  \/ \E d \in NewStartDates : Reschedule(DefaultTeacherId, 1, 3, d, 0)
  \/ \E c \in CourseIds : CreateActivity(DefaultTeacherId, c, 1, 0, 0)
  \/ \E a \in ActivityIds : EditActivity(DefaultTeacherId, a, NULL, 1, 1, 0)
  \/ \E a \in ActivityIds : DeleteActivity(DefaultTeacherId, a)
  \/ \E a \in ActivityIds : MoveActivity(DefaultTeacherId, a, NULL, 1, 1, NULL, 0)

SpecIntegrity == InitActivities /\ [][NextIntegrity]_vars

\* the activity requests of the default teacher on course 1, one at a time, on
\* the store left by bootstrap, which holds no activity
NextSequencer ==
  \/ \E s \in ActivitySlots : CreateActivity(DefaultTeacherId, 1, 1, s, 0)
  \/ \E a \in ActivityIds, s \in ActivitySlots, f \in ActivityFailPoints :
       EditActivity(DefaultTeacherId, a, NULL, 1, s, f)
  \/ \E a \in ActivityIds : DeleteActivity(DefaultTeacherId, a)
  \/ \E a \in ActivityIds, s \in ActivitySlots, f \in ActivityFailPoints :
       MoveActivity(DefaultTeacherId, a, NULL, 1, s, NULL, f)

SpecSequencer == InitActivities /\ [][NextSequencer]_vars

\* the edits and moves of several callers, interleaved, on the activities the
\* default teacher creates in slot 0 of week 1 of course 1; the edits are to
\* slot 1 and the moves to the end of slot 1
NextRace ==
  \/ CreateActivity(DefaultTeacherId, 1, 1, 0, 0)
  \/ \E p \in Callers, a \in ActivityIds : BeginEdit(p, DefaultTeacherId, a, 1, 1)
  \/ \E p \in Callers : FinishEdit(p)
  \/ \E p \in Callers, a \in ActivityIds : BeginMove(p, DefaultTeacherId, a, 1, 1, NULL)
  \/ \E p \in Callers : FinishMove(p)

SpecRace == InitActivities /\ [][NextRace]_vars

\* the requests of the default teacher on two courses of their own and on the
\* activities of both: edits and moves that name no course, the course of the
\* activity or the other course, and the deletion of a course
NextBelongs ==
  \/ CreateCourse(DefaultTeacherId, DefaultStartDate, 0, 0)
  \/ \E c \in CourseIds : DeleteCourse(DefaultTeacherId, c, "same")
  \/ \E c \in CourseIds : CreateActivity(DefaultTeacherId, c, 1, 0, 0)
  \/ \E a \in ActivityIds, c \in RequestedCourseIds :
       EditActivity(DefaultTeacherId, a, c, 1, 1, 0)
  \/ \E a \in ActivityIds : DeleteActivity(DefaultTeacherId, a)
  \/ \E a \in ActivityIds, c \in RequestedCourseIds :
       MoveActivity(DefaultTeacherId, a, c, 1, 1, NULL, 0)

SpecBelongs == InitActivities /\ [][NextBelongs]_vars

\* the reschedules and materializations of the courses of the default teacher
\* between the creations and reassignments of their activities: courses are
\* created with and without their half-days, rescheduled (course 1 from week
\* 1 or week 3, course 2 from week 3) and listed
NextKeeps ==
  \/ \E f \in CalendarFailPoints : CreateCourse(DefaultTeacherId, DefaultStartDate, 0, f)
  \/ GetHalfDays(DefaultTeacherId, 2, 0)
  \/ \E w \in RescheduleWeeks, d \in NewStartDates : Reschedule(DefaultTeacherId, 1, w, d, 0)
  \/ \E d \in NewStartDates : Reschedule(DefaultTeacherId, 2, 3, d, 0)
  \/ \E c \in CourseIds : CreateActivity(DefaultTeacherId, c, 1, 0, 0)
  \/ \E a \in ActivityIds : EditActivity(DefaultTeacherId, a, NULL, 1, 1, 0)

SpecKeeps == InitActivities /\ [][NextKeeps]_vars

\* the requests that keep a course on the schedule materialized from its
\* start: course creation in either start slot, course update, GET half-days,
\* reschedules from week 1 and activity creation
NextSummerTime ==
  \/ \E s \in 0..(SlotsPerDay - 1), f \in CalendarFailPoints :
       CreateCourse(DefaultTeacherId, DefaultStartDate, s, f)
  \/ \E c \in CourseIds : UpdateCourse(DefaultTeacherId, c)
  \/ \E c \in CourseIds : GetHalfDays(DefaultTeacherId, c, 0)
  \/ \E c \in CourseIds, d \in NewStartDates : Reschedule(DefaultTeacherId, c, 1, d, 0)
  \/ \E c \in CourseIds, s \in ActivitySlots : CreateActivity(DefaultTeacherId, c, 1, s, 0)

SpecSummerTime == InitSummerTime /\ [][NextSummerTime]_vars

Next == NextCalendar \/ NextActivities \/ NextConcurrent \/ NextTeacher \/ NextFromStart
          \/ NextMapper \/ NextOwners \/ NextIntegrity \/ NextRace
          \/ NextSequencer \/ NextBelongs \/ NextKeeps \/ NextSummerTime

Spec == Init /\ [][Next]_vars

(***************************************************************************)
(* Vocabulary of the properties                                            *)
(***************************************************************************)
\* the positions of the activities of a half-day are exactly 1..N
Contiguous(acts, halfDayId) ==
  LET ids == ActivitiesOf(acts, halfDayId)
  IN /\ {acts[a].position : a \in ids} = 1..Cardinality(ids)
     /\ \A a, b \in ids : acts[a].position = acts[b].position => a = b

RemoveId(seq, a) == SelectSeq(seq, LAMBDA x : x # a)

InsertAt(seq, index, a) == SubSeq(seq, 1, index) \o <<a>> \o SubSeq(seq, index + 1, Len(seq))

\* the last request was a move that was neither rejected (404, 400, no target
\* half-day) nor hit by a failure of the store
MoveAccepted ==
  /\ request.op = "moveActivity"
  /\ response.error \notin {"not_found", "validation", "half_day", "database"}

\* the half-day a request names by (weekNumber, slotIndex) in the course of its activity
TargetHalfDayId(hd, acts, req) ==
  HalfDayAt(hd, <<ActivityCourseId(hd, acts, req.activityId), req.weekNumber, req.slotIndex>>).id

\* the calendar day and the period of slot slotInWeek of week weekNumber for a
\* course that starts on day startDay at slot startSlotIndex, in day
\* arithmetic: two slots a day, the week's first day 7 * (weekNumber - 1) days
\* after the start
mapSlot(startDay, startSlotIndex, weekNumber, slotInWeek) ==
  [sessionDate |-> startDay + DaysPerWeek * (weekNumber - 1)
                     + ((startSlotIndex + slotInWeek) \div SlotsPerDay),
   period |-> IF (startSlotIndex + slotInWeek) % SlotsPerDay = 0
              THEN "matin" ELSE "apres_midi"]

\* the course of the half_days row with this id (half_days.course_id)
CourseOfHalfDay(hd, halfDayId) ==
  CHOOSE c \in CourseIds :
    \E k \in DOMAIN hd : k[1] = c /\ \E j \in 1..Len(hd[k]) : hd[k][j].id = halfDayId

\* the course exists and belongs to the teacher
OwnsCourse(teacherId, courseId) ==
  courseId \in DOMAIN courses /\ courses[courseId].teacherId = teacherId

\* the activity exists, in a half-day of a course that belongs to the teacher
OwnsActivity(teacherId, activityId) ==
  /\ activityId \in DOMAIN activities
  /\ \E k \in DOMAIN halfDays :
       /\ \E j \in 1..Len(halfDays[k]) : halfDays[k][j].id = activities[activityId].halfDayId
       /\ OwnsCourse(teacherId, k[1])

(***************************************************************************)
(* C1: in every state reached by activity create, edit, delete and move    *)
(* requests from a store without activities, the positions of the          *)
(* activities of each half-day are exactly 1..N.                           *)
(***************************************************************************)
C1_PositionsContiguous ==
  \A h \in HalfDayIds(halfDays) : Contiguous(activities, h)

(***************************************************************************)
(* C2: after a move request that is carried out, the source half-day and   *)
(* the target half-day both have positions exactly 1..N.                   *)
(***************************************************************************)
C2_MoveLeavesBothContiguous ==
  [][MoveAccepted' =>
       /\ response'.status = 200
       /\ Contiguous(activities', activities[request'.activityId].halfDayId)
       /\ Contiguous(activities', TargetHalfDayId(halfDays', activities, request'))]_vars

C4_MoveWithinHalfDay ==
  [][(/\ MoveAccepted'
      /\ request'.position # NULL
      /\ TargetHalfDayId(halfDays', activities, request') =
           activities[request'.activityId].halfDayId) =>
       LET a       == request'.activityId
           h       == activities[a].halfDayId
           without == RemoveId(getOrderedActivityIds(activities, h), a)
           index   == Min(request'.position, Len(without))
           order   == InsertAt(without, index, a)
       IN /\ response'.status = 200
          /\ response'.position = index + 1
          /\ getOrderedActivityIds(activities', h) = order
          /\ \A i \in 1..Len(order) : activities'[order[i]].position = i]_vars

(***************************************************************************)
(* C5: a move of a from half-day S to another half-day T without requested *)
(* position appends a to T (position = previous count of T + 1, the value  *)
(* returned) and leaves the other activities of S in their previous order  *)
(* with positions 1..N-1.                                                  *)
(***************************************************************************)
C5_MoveAcrossAppends ==
  [][(/\ MoveAccepted'
      /\ request'.position = NULL
      /\ TargetHalfDayId(halfDays', activities, request') #
           activities[request'.activityId].halfDayId) =>
       LET a      == request'.activityId
           S      == activities[a].halfDayId
           T      == TargetHalfDayId(halfDays', activities, request')
           before == getOrderedActivityIds(activities, T)
           rest   == RemoveId(getOrderedActivityIds(activities, S), a)
       IN /\ response'.status = 200
          /\ response'.position = Len(before) + 1
          /\ getOrderedActivityIds(activities', T) = Append(before, a)
          /\ activities'[a].position = Len(before) + 1
          /\ getOrderedActivityIds(activities', S) = rest
          /\ \A i \in 1..Len(rest) : activities'[rest[i]].position = i]_vars

(***************************************************************************)
(* C6: a move whose requested position exceeds the length of the target    *)
(* list does not fail: the activity ends as the last one of the target     *)
(* half-day.                                                               *)
(***************************************************************************)
C6_MoveClampsPosition ==
  [][(/\ MoveAccepted'
      /\ request'.position # NULL
      /\ request'.position >
           Len(RemoveId(getOrderedActivityIds(activities,
                          TargetHalfDayId(halfDays', activities, request')),
                        request'.activityId))) =>
       LET a     == request'.activityId
           T     == TargetHalfDayId(halfDays', activities, request')
           order == getOrderedActivityIds(activities', T)
       IN /\ response'.status = 200
          /\ Len(order) > 0
          /\ order[Len(order)] = a]_vars

C8_CreateAssignsPosition ==
  (request.op = "createActivity" /\ response.status = 201) =>
    /\ activities[response.id].position # NULL
    /\ activities[response.id].position =
         Cardinality(ActivitiesOf(activities, response.halfDayId) \ {response.id}) + 1

(***************************************************************************)
(* C9: ensureHalfDays is idempotent: a call that follows a successful call *)
(* for the same course returns the same 15 half-days (ids, weeks, slots,   *)
(* dates, periods) and writes nothing.                                     *)
(***************************************************************************)
C9_EnsureIdempotent ==
  [][(/\ request.op = "halfDays" /\ response.status = 200
      /\ request'.op = "halfDays" /\ request'.courseId = request.courseId
      /\ response'.status # 404) =>
       /\ response'.status = 200
       /\ Len(response'.halfDays) = FullHalfDayCount
       /\ response'.halfDays = response.halfDays
       /\ halfDays' = halfDays
       /\ lastHalfDayId' = lastHalfDayId]_vars

\* a call has answered with the 15 half-days of a course whose last weeks
\* were stored before its first ones
C9_Witness ==
  /\ request.op = "halfDays"
  /\ response.status = 200
  /\ Len(response.halfDays) = FullHalfDayCount
  /\ response.halfDays[1].id > response.halfDays[FullHalfDayCount].id

C11_EnsureKeepsExisting ==
  [][request'.op # "reschedule" =>
       \A k \in DOMAIN halfDays :
         k \in DOMAIN halfDays' /\ halfDays'[k] = halfDays[k]]_vars

\* a call has inserted the first weeks of a course whose week 3 carries a date
\* that is not the one the mapper gives for the course start
C11_Witness ==
  /\ request.op = "halfDays"
  /\ response.status = 200
  /\ <<request.courseId, 1, 0>> \in DOMAIN halfDays
  /\ <<request.courseId, 3, 0>> \in DOMAIN halfDays
  /\ HalfDayAt(halfDays, <<request.courseId, 1, 0>>).id >
       HalfDayAt(halfDays, <<request.courseId, 3, 0>>).id
  /\ HalfDayAt(halfDays, <<request.courseId, 3, 0>>).sessionDate #
       computeHalfDaySession(DateFromColumn(courses[request.courseId].startDate),
                             IndexOfPeriod(courses[request.courseId].startPeriod),
                             3, 0).sessionDate

(***************************************************************************)
(* C12: ensureHalfDays is all-or-nothing: a call in which the insert of a  *)
(* missing half-day fails leaves none of the half-days it inserted, and a  *)
(* call that succeeds leaves the course with all its half-days; no call    *)
(* ends with a partially materialized schedule of its own making.          *)
(***************************************************************************)
C12_EnsureAllOrNothing ==
  [][(request'.op \in {"halfDays", "createCourse"} /\ response'.status # 404) =>
       IF response'.status \in {200, 201}
       THEN \A i \in 1..Len(SlotKeys) :
              <<request'.courseId, SlotKeys[i][1], SlotKeys[i][2]>> \in DOMAIN halfDays'
       ELSE halfDays' = halfDays]_vars

\* a call has failed at its second INSERT, after the first one had stored the
\* first half-day of the course, and that row is not in the table
C12_Witness ==
  /\ request.op \in {"halfDays", "createCourse"}
  /\ response.status = 500
  /\ response.error = "database"
  /\ request.courseId \in DOMAIN courses
  /\ <<request.courseId, 1, 0>> \notin DOMAIN halfDays
  /\ <<request.courseId, 1, 1>> \notin DOMAIN halfDays

(***************************************************************************)
(* C13: when two ensureHalfDays calls for the same course that is not yet  *)
(* materialized interleave (both read the existing half-days before either *)
(* commits), the duplicate key met by the call that comes second is benign:*)
(* that call too completes without error and returns the 15 half-days.     *)
(***************************************************************************)
C13_ConcurrentEnsureBenign ==
  [][\A p \in Callers :
       (/\ p \in DOMAIN pending
        /\ p \notin DOMAIN pending'
        /\ request.op \in {"halfDays", "createCourse"}
        /\ request.courseId = pending[p].courseId
        /\ response.status \in {200, 201}) =>
         /\ response'.status \in {200, 201}
         /\ pending[p].op = "halfDays" => Len(response'.halfDays) = FullHalfDayCount]_vars

(***************************************************************************)
(* C14: in every reachable state, also under interleaved ensureHalfDays    *)
(* and reschedule calls, a course has at most one half-day for each        *)
(* (weekNumber, slotIndex).                                                *)
(***************************************************************************)
C14_OneHalfDayPerSlot ==
  \A k \in DOMAIN halfDays : Len(halfDays[k]) <= 1

\* a call that had read an incomplete course before another call stored the
\* same (week, slot) has run its INSERTs and was refused: the course has its
\* 15 half-days, each once
C14_Witness ==
  /\ request.op \in {"halfDays", "createCourse"}
  /\ response.status = 500
  /\ \A i \in 1..Len(SlotKeys) :
       /\ <<request.courseId, SlotKeys[i][1], SlotKeys[i][2]>> \in DOMAIN halfDays
       /\ Len(halfDays[<<request.courseId, SlotKeys[i][1], SlotKeys[i][2]>>]) = 1

(***************************************************************************)
(* C15: reschedule(course, fromWeekNumber, newStartDate) leaves every      *)
(* half-day of the weeks 1..fromWeekNumber-1 unchanged (same id, date and  *)
(* period) and affects only the weeks fromWeekNumber..5 of that course.    *)
(***************************************************************************)
C15_RescheduleKeepsEarlierWeeks ==
  [][request'.op = "reschedule" =>
       \A k \in DOMAIN halfDays \cup DOMAIN halfDays' :
         (k[1] # request'.courseId \/ k[2] < request'.weekNumber) =>
           /\ k \in DOMAIN halfDays
           /\ k \in DOMAIN halfDays'
           /\ halfDays'[k] = halfDays[k]]_vars

\* a reschedule from week 3 has succeeded on a course that has its week 2,
\* and week 3 now starts before week 2 ends
C15_Witness ==
  /\ request.op = "reschedule"
  /\ response.status = 200
  /\ request.weekNumber = 3
  /\ <<request.courseId, 2, 2>> \in DOMAIN halfDays
  /\ HalfDayAt(halfDays, <<request.courseId, 3, 0>>).sessionDate <
       HalfDayAt(halfDays, <<request.courseId, 2, 2>>).sessionDate

(***************************************************************************)
(* C16: after a successful reschedule(course, k, newStartDate), for every  *)
(* week w in k..5 and slot s in 0..2 the half-day (w, s) exists and its    *)
(* (sessionDate, period) is mapSlot(newStartDate, the course's start slot, *)
(* w - k + 1, s), whether the half-day existed before or not.              *)
(***************************************************************************)
C16_RescheduleRecomputes ==
  [][(request'.op = "reschedule" /\ response'.status = 200) =>
       LET c == request'.courseId
           k == request'.weekNumber
       IN \A w \in k..WeeksPerCourse, s \in 0..(SlotsPerWeek - 1) :
            /\ <<c, w, s>> \in DOMAIN halfDays'
            /\ LET row      == HalfDayAt(halfDays', <<c, w, s>>)
                    expected == mapSlot(request'.startDate,
                                        IndexOfPeriod(courses[c].startPeriod), w - k + 1, s)
               IN /\ row.sessionDate = expected.sessionDate
                  /\ row.period = expected.period]_vars

(***************************************************************************)
(* C17: the startDate of a course changes only through a successful        *)
(* reschedule with fromWeekNumber = 1, which sets it to newStartDate; a    *)
(* reschedule from a later week and every other operation (ensureHalfDays, *)
(* course field update, activity create, edit, delete, move) leave it      *)
(* unchanged, and no operation changes startPeriod.                        *)
(***************************************************************************)
C17_StartMovesOnlyByRescheduleOfWeekOne ==
  [][/\ \A c \in DOMAIN courses \cap DOMAIN courses' :
          /\ courses'[c].startPeriod = courses[c].startPeriod
          /\ courses'[c].startDate # courses[c].startDate =>
                /\ request'.op = "reschedule"
                /\ request'.courseId = c
                /\ request'.weekNumber = 1
                /\ response'.status = 200
                /\ courses'[c].startDate = request'.startDate
     /\ (request'.op = "reschedule" /\ response'.status = 200 /\ request'.weekNumber = 1) =>
          courses'[request'.courseId].startDate = request'.startDate]_vars

\* a reschedule from week 3 has succeeded on a course whose start an earlier
\* reschedule from week 1 had moved, in a store that holds an activity
C17_Witness ==
  /\ request.op = "reschedule"
  /\ response.status = 200
  /\ request.weekNumber = 3
  /\ courses[request.courseId].startDate \in NewStartDates
  /\ DOMAIN activities # {}

(***************************************************************************)
(* C18: reschedule is atomic: when one of its writes fails, the startDate  *)
(* of the course and the date and period of every half-day are as they     *)
(* were before the call; when it succeeds, all the weeks from               *)
(* fromWeekNumber on carry the dates computed from newStartDate and, for    *)
(* fromWeekNumber = 1, the course carries newStartDate.  No reschedule      *)
(* leaves only some weeks rewritten, or the course start moved without its  *)
(* half-days.                                                               *)
(***************************************************************************)
C18_RescheduleAtomic ==
  [][request'.op = "reschedule" =>
       IF response'.status = 200
       THEN LET c == request'.courseId
                k == request'.weekNumber
            IN /\ k = 1 => courses'[c].startDate = request'.startDate
               /\ \A w \in k..WeeksPerCourse, s \in 0..(SlotsPerWeek - 1) :
                    /\ <<c, w, s>> \in DOMAIN halfDays'
                    /\ HalfDayAt(halfDays', <<c, w, s>>).sessionDate =
                         computeHalfDaySession(DateFromString(request'.startDate),
                                               IndexOfPeriod(courses[c].startPeriod),
                                               w - k + 1, s).sessionDate
       ELSE courses' = courses /\ halfDays' = halfDays]_vars

\* a reschedule from week 1 has failed after its UPDATE of the course, and the
\* course has the start it had
C18_Witness ==
  /\ request.op = "reschedule"
  /\ response.status = 500
  /\ response.error = "database"
  /\ request.weekNumber = 1
  /\ courses[request.courseId].startDate # request.startDate

(***************************************************************************)
(* C19: in every state reached by course creation, ensureHalfDays,         *)
(* activity operations and reschedules with fromWeekNumber = 1 only, every *)
(* stored half-day (w, s) has (sessionDate, period) = mapSlot(startDate of *)
(* its course, start slot of its course, w, s).                            *)
(***************************************************************************)
C19_HalfDaysFollowStart ==
  \A k \in DOMAIN halfDays :
    LET row      == HalfDayAt(halfDays, k)
        expected == mapSlot(courses[k[1]].startDate,
                            IndexOfPeriod(courses[k[1]].startPeriod), k[2], k[3])
    IN /\ row.sessionDate = expected.sessionDate
       /\ row.period = expected.period

(***************************************************************************)
(* C20: mapSlot is a pure function of its arguments: for every start date, *)
(* start slot in {0, 1}, week in 1..5 and slot in 0..2 it returns          *)
(* sessionDate = startDate + 7 * (week - 1) + floor((startSlot + slot) / 2)*)
(* days and period = morning when startSlot + slot is even, afternoon      *)
(* otherwise; with start slot 0, week 1 is (start, morning), (start,       *)
(* afternoon), (start + 1 day, morning).                                   *)
(***************************************************************************)
C20_MapSlotIsDayArithmetic ==
  request.op = "computeHalfDaySession" =>
    /\ response.sessionDate =
         request.startDate + DaysPerWeek * (request.weekNumber - 1)
           + ((request.startSlotIndex + request.slotIndex) \div SlotsPerDay)
    /\ response.period = IF (request.startSlotIndex + request.slotIndex) % 2 = 0
                         THEN "matin" ELSE "apres_midi"
    /\ (request.startSlotIndex = 0 /\ request.weekNumber = 1) =>
         response = <<[sessionDate |-> request.startDate, period |-> "matin"],
                      [sessionDate |-> request.startDate, period |-> "apres_midi"],
                      [sessionDate |-> request.startDate + 1, period |-> "matin"]>>
                    [request.slotIndex + 1]

(***************************************************************************)
(* C21: an edit whose (week, slot) resolves to the half-day the activity is *)
(* in changes neither the position nor the half-day of that activity, and   *)
(* no position of any other activity.                                       *)
(***************************************************************************)
C21_EditInPlaceKeepsPositions ==
  [][(/\ request'.op = "editActivity"
      /\ response'.error \notin {"not_found", "validation"}
      /\ TargetHalfDayId(halfDays', activities, request') =
           activities[request'.activityId].halfDayId) =>
       activities' = activities]_vars

\* an edit in place has succeeded on an activity that keeps a position below
\* that of another activity of its half-day
C21_Witness ==
  /\ request.op = "editActivity"
  /\ response.status = 200
  /\ request.activityId \in DOMAIN activities
  /\ activities[request.activityId].halfDayId = response.halfDayId
  /\ activities[request.activityId].position # NULL
  /\ \E b \in DOMAIN activities :
       /\ activities[b].halfDayId = response.halfDayId
       /\ activities[b].position # NULL
       /\ activities[b].position > activities[request.activityId].position

(***************************************************************************)
(* C22: an edit that reassigns an activity to another half-day resequences *)
(* the destination as a move without requested position does: afterwards   *)
(* the positions of the destination half-day are exactly 1..N and the       *)
(* reassigned activity is the last of its canonical order, whatever the     *)
(* destination held before (absent positions and gaps included).            *)
(***************************************************************************)
C22_EditReassignResequences ==
  [][(/\ request'.op = "editActivity"
      /\ response'.status = 200
      /\ response'.halfDayId # activities[request'.activityId].halfDayId) =>
       LET T     == response'.halfDayId
           order == getOrderedActivityIds(activities', T)
       IN /\ activities'[request'.activityId].halfDayId = T
          /\ Contiguous(activities', T)
          /\ order[Len(order)] = request'.activityId]_vars

(***************************************************************************)
(* C23: delete(activityId) removes exactly the named activity and does not *)
(* resequence: every other activity keeps its half-day and its position,   *)
(* no other request removes an activity, and an activity that was removed  *)
(* never reappears.                                                        *)
(***************************************************************************)
C23_DeleteRemovesOneRow ==
  [][/\ request'.op = "deleteActivity" =>
          IF response'.status = 200
          THEN /\ request'.activityId \in DOMAIN activities
               /\ DOMAIN activities' = DOMAIN activities \ {request'.activityId}
               /\ \A b \in DOMAIN activities' : activities'[b] = activities[b]
          ELSE activities' = activities
     /\ \A a \in DOMAIN activities \ DOMAIN activities' :
          request'.op = "deleteActivity" /\ request'.activityId = a
     /\ \A a \in 1..lastActivityId :
          a \notin DOMAIN activities => a \notin DOMAIN activities']_vars

\* a delete has removed the first activity of a half-day, and the activity
\* that was second keeps position 2
C23_Witness ==
  /\ request.op = "deleteActivity"
  /\ response.status = 200
  /\ request.activityId \notin DOMAIN activities
  /\ \E b \in DOMAIN activities :
       /\ activities[b].position = 2
       /\ \A c \in ActivitiesOf(activities, activities[b].halfDayId) :
            activities[c].position # 1

(***************************************************************************)
(* C24: an edit, delete or move of an activity, or a reschedule of a       *)
(* course, sent by a teacher who does not own the activity or course it    *)
(* names, or that names an absent one, ends in a lookup failure and leaves *)
(* every course, half-day and activity as it was: it materializes no       *)
(* half-day and rewrites no position.                                      *)
(***************************************************************************)
C24_LookupFailureChangesNothing ==
  [][(\/ /\ request'.op \in {"editActivity", "deleteActivity", "moveActivity"}
         /\ ~OwnsActivity(request'.teacherId, request'.activityId)
      \/ /\ request'.op = "reschedule"
         /\ ~OwnsCourse(request'.teacherId, request'.courseId)) =>
       /\ response'.status = 404
       /\ response'.error = "not_found"
       /\ courses' = courses
       /\ halfDays' = halfDays
       /\ lastHalfDayId' = lastHalfDayId
       /\ activities' = activities]_vars

\* a reschedule of a course that has none of its half-days was refused to a
\* teacher who does not own it, in a store that holds a positioned activity
C24_Witness ==
  /\ request.op = "reschedule"
  /\ response.status = 404
  /\ request.courseId \in DOMAIN courses
  /\ courses[request.courseId].teacherId # request.teacherId
  /\ \A k \in DOMAIN halfDays : k[1] # request.courseId
  /\ \E a \in DOMAIN activities : activities[a].position # NULL

(***************************************************************************)
(* C25: two concurrent moves that target the same half-day can interleave, *)
(* each reading the ordered id list before the other writes its positions, *)
(* and both commit, so that the half-day ends with the positions each      *)
(* computed from its own read (a duplicate position, or positions that are *)
(* not 1..N): a move that finishes while another move to the same half-day *)
(* has read its list and not yet written reports success and has written   *)
(* position index + 1 for every id of the list it built from its own read. *)
(***************************************************************************)
C25_RacingMovesBothCommit ==
  [][\A p \in Callers :
       (/\ p \in DOMAIN pending
        /\ p \notin DOMAIN pending'
        /\ pending[p].op = "moveActivity"
        /\ \E q \in DOMAIN pending \ {p} :
             /\ pending[q].op = "moveActivity"
             /\ pending[q].activityId # pending[p].activityId
             /\ pending[q].halfDayId = pending[p].halfDayId) =>
         LET call    == pending[p]
             without == RemoveId(call.targetActivityIds, call.activityId)
             index   == IF call.position = NULL THEN Len(without)
                        ELSE Min(call.position, Len(without))
             placed  == InsertAt(without, index, call.activityId)
         IN /\ response'.status = 200
            /\ activities'[call.activityId].halfDayId = call.halfDayId
            /\ \A i \in 1..Len(placed) : activities'[placed[i]].position = i]_vars

C27_ReferentialIntegrity ==
  [][/\ \A a \in DOMAIN activities : \E k \in DOMAIN halfDays :
          \E j \in 1..Len(halfDays[k]) : halfDays[k][j].id = activities[a].halfDayId
     /\ \A k \in DOMAIN halfDays : k[1] \in DOMAIN courses
     /\ \A a \in DOMAIN activities' : \E k \in DOMAIN halfDays' :
          \E j \in 1..Len(halfDays'[k]) : halfDays'[k][j].id = activities'[a].halfDayId
     /\ \A k \in DOMAIN halfDays' : k[1] \in DOMAIN courses'
     /\ (request'.op = "deleteCourse" /\ response'.status = 200) =>
          LET c    == request'.courseId
              gone == {k \in DOMAIN halfDays : k[1] = c}
              ids  == UNION {{halfDays[k][j].id : j \in 1..Len(halfDays[k])} : k \in gone}
          IN /\ DOMAIN courses' = DOMAIN courses \ {c}
             /\ DOMAIN halfDays' = DOMAIN halfDays \ gone
             /\ \A k \in DOMAIN halfDays' : halfDays'[k] = halfDays[k]
             /\ DOMAIN activities' =
                  {a \in DOMAIN activities : activities[a].halfDayId \notin ids}
             /\ \A a \in DOMAIN activities' : activities'[a] = activities[a]
     /\ \A k \in DOMAIN halfDays \ DOMAIN halfDays' :
          /\ request'.op = "deleteCourse"
          /\ response'.status = 200
          /\ k[1] = request'.courseId
     /\ (halfDays' # halfDays /\ HalfDayIds(halfDays) \ HalfDayIds(halfDays') # {}) =>
          request'.op = "deleteCourse" /\ response'.status = 200]_vars

\* a course that had its 15 half-days was deleted, of two activities one is
\* left, and the other course keeps its 15 half-days
C27_Witness ==
  /\ request.op = "deleteCourse"
  /\ response.status = 200
  /\ request.courseId \notin DOMAIN courses
  /\ lastHalfDayId = 2 * FullHalfDayCount
  /\ Cardinality(DOMAIN halfDays) = FullHalfDayCount
  /\ lastActivityId = 2
  /\ Cardinality(DOMAIN activities) = 1

(***************************************************************************)
(* C28: in every reachable state, also after reschedules from any week     *)
(* with any new start date, no two half-days of the same course have the   *)
(* same (sessionDate, period): the uniqueness constraint of the store      *)
(* keeps the same period of the same day from being duplicated in a course.*)
(***************************************************************************)
C28_OnePeriodPerDay ==
  \A k1, k2 \in DOMAIN halfDays :
    (/\ k1[1] = k2[1]
     /\ HalfDayAt(halfDays, k1).sessionDate = HalfDayAt(halfDays, k2).sessionDate
     /\ HalfDayAt(halfDays, k1).period = HalfDayAt(halfDays, k2).period) => k1 = k2

(***************************************************************************)
(* C29: in every state reached by create, edit, delete and move requests   *)
(* handled one at a time from a store without activities, no two           *)
(* activities of the same half-day have the same position, absent          *)
(* positions aside.                                                        *)
(***************************************************************************)
C29_NoDuplicatePosition ==
  \A a, b \in DOMAIN activities :
    (/\ activities[a].halfDayId = activities[b].halfDayId
     /\ activities[a].position # NULL
     /\ activities[a].position = activities[b].position) => a = b

\* an activity was reassigned to a half-day that holds another activity at
\* position 1, and has position 2
C29_Witness ==
  /\ request.op = "editActivity"
  /\ response.status = 200
  /\ request.activityId \in DOMAIN activities
  /\ activities[request.activityId].halfDayId = response.halfDayId
  /\ activities[request.activityId].position = 2
  /\ \E b \in DOMAIN activities :
       /\ activities[b].halfDayId = response.halfDayId
       /\ activities[b].position = 1

(***************************************************************************)
(* C30: when two concurrent edits reassign two different activities to the *)
(* same destination half-day, each reading the maximum position of the     *)
(* destination before the other commits, the two activities do not end     *)
(* with the same position: an edit that reassigns an activity right after   *)
(* another edit has put another activity in the same destination gives it  *)
(* a position other than that activity's.                                  *)
(***************************************************************************)
C30_RacingEditsDistinctPositions ==
  [][\A p \in Callers :
       (/\ p \in DOMAIN pending
        /\ p \notin DOMAIN pending'
        /\ pending[p].op = "editActivity"
        /\ pending[p].halfDayId # pending[p].existingHalfDayId
        /\ request.op = "editActivity"
        /\ response.status = 200
        /\ response.halfDayId = pending[p].halfDayId
        /\ request.activityId # pending[p].activityId
        /\ request.activityId \in DOMAIN activities') =>
         activities'[pending[p].activityId].position #
           activities'[request.activityId].position]_vars

C32_CourseNeverChanges ==
  [][/\ \A a \in DOMAIN activities \cap DOMAIN activities' :
          CourseOfHalfDay(halfDays', activities'[a].halfDayId) =
            CourseOfHalfDay(halfDays, activities[a].halfDayId)
     /\ \A a \in DOMAIN activities' \ DOMAIN activities :
          /\ a > lastActivityId
          /\ request'.op = "createActivity"
          /\ CourseOfHalfDay(halfDays', activities'[a].halfDayId) = request'.courseId
     /\ (/\ request'.op \in {"editActivity", "moveActivity"}
         /\ OwnsActivity(request'.teacherId, request'.activityId)
         /\ request'.courseId # NULL
         /\ request'.courseId #
              CourseOfHalfDay(halfDays, activities[request'.activityId].halfDayId)) =>
          /\ response'.status = 400
          /\ activities' = activities
          /\ halfDays' = halfDays]_vars

\* an activity of course 2 was reassigned by an edit that named course 2, and
\* sits in a half-day of course 2, while course 1 holds an activity
C32_Witness ==
  /\ request.op = "editActivity"
  /\ response.status = 200
  /\ request.courseId = 2
  /\ activities[request.activityId].position # NULL
  /\ CourseOfHalfDay(halfDays, activities[request.activityId].halfDayId) = 2
  /\ \E b \in DOMAIN activities : CourseOfHalfDay(halfDays, activities[b].halfDayId) = 1

(***************************************************************************)
(* C33: reschedule and ensureHalfDays never change activities: a step of a *)
(* reschedule, of GET half-days or of a course creation leaves the         *)
(* activities table as it was, and in every step each row of half_days     *)
(* that exists stays under its key with its id, whatever becomes of its    *)
(* date and period, so that the half-day reference every activity keeps    *)
(* still names the same slot of the same course.                           *)
(***************************************************************************)
C33_ScheduleKeepsActivities ==
  [][/\ request'.op \in {"reschedule", "halfDays", "createCourse"} =>
          activities' = activities
     /\ \A k \in DOMAIN halfDays :
          /\ k \in DOMAIN halfDays'
          /\ Len(halfDays'[k]) >= Len(halfDays[k])
          /\ \A j \in 1..Len(halfDays[k]) : halfDays'[k][j].id = halfDays[k][j].id]_vars

\* a reschedule from week 1 has overwritten the date of a half-day of week 1
\* that holds a positioned activity
C33_Witness ==
  /\ request.op = "reschedule"
  /\ response.status = 200
  /\ request.weekNumber = 1
  /\ \E a \in DOMAIN activities : \E k \in DOMAIN halfDays :
       /\ activities[a].position # NULL
       /\ k[1] = request.courseId /\ k[2] = 1
       /\ HalfDayAt(halfDays, k).id = activities[a].halfDayId
       /\ HalfDayAt(halfDays, k).sessionDate >= request.startDate

(***************************************************************************)
(* C34: for a course materialized from its start and never rescheduled     *)
(* from a week > 1, the 15 half-days are strictly increasing in time when  *)
(* ordered by (weekNumber, slotIndex): consecutive slots of a week         *)
(* alternate between morning and afternoon, the three slots of each week   *)
(* fall on exactly two consecutive calendar days, and no two half-days     *)
(* share the same (sessionDate, period), for both start slots.             *)
(***************************************************************************)
C34_ScheduleStrictlyIncreasing ==
  \A c \in DOMAIN courses :
    (\A i \in 1..Len(SlotKeys) : <<c, SlotKeys[i][1], SlotKeys[i][2]>> \in DOMAIN halfDays) =>
      LET row(w, s) == HalfDayAt(halfDays, <<c, w, s>>)
          time(r)   == SlotsPerDay * r.sessionDate + IndexOfPeriod(r.period)
          at(i)     == row(SlotKeys[i][1], SlotKeys[i][2])
      IN /\ \A i \in 1..(Len(SlotKeys) - 1) : time(at(i)) < time(at(i + 1))
         /\ \A w \in 1..WeeksPerCourse :
              /\ row(w, 0).period # row(w, 1).period
              /\ row(w, 1).period # row(w, 2).period
              /\ {row(w, s).sessionDate : s \in 0..(SlotsPerWeek - 1)} =
                   {row(w, 0).sessionDate, row(w, 0).sessionDate + 1}
         /\ \A i, j \in 1..Len(SlotKeys) :
              (/\ at(i).sessionDate = at(j).sessionDate
               /\ at(i).period = at(j).period) => i = j

====
